---- MODULE Spec2Model ----
(***************************************************************************)
(* Gesture recognition and interaction state machine of the hand           *)
(* controller (src/components/HandController.tsx, processGestures).        *)
(*                                                                         *)
(* Units.  Landmark coordinates are normalised to [0,1] in the program;    *)
(* here they are integers in thousandths (0..1000).  The zoom level is in  *)
(* thousandths as well.  Timestamps are integer milliseconds.  A rotation  *)
(* velocity is the exact rational n / 5^e in units of 10^-6, kept as the   *)
(* record [n, e] in lowest terms, so that the factors 0.8 and 0.2 of the   *)
(* code are computed without rounding.                                     *)
(***************************************************************************)
EXTENDS Integers, Sequences, FiniteSets, TLC

VARIABLES
    currentZoomLevel,       \* useRef(0.5), thousandths
    handsDistanceHistory,   \* useRef<number[]>([])
    pinchState,             \* useRef({isPinched, lastPinchReleaseTime, clickCount, isLocked})
    lastWristPos,           \* useRef(null): <<>> is null, <<p>> holds the point p
    smoothedVelocity,       \* useRef(0)
    now,                    \* performance.now() of the last processed frame (of the mount before any)
    frame,                  \* landmarksArray of the last processed frame
    action,                 \* GestureAction returned for the last frame
    rotEmit,                \* arguments of onRotateChange during the last frame
    zoomEmit,               \* arguments of onZoomChange during the last frame
    focusEmit,              \* arguments of onPhotoFocusChange during the last frame
    stateEmit,              \* arguments of onStateChange during the last frame
    nframes,                \* number of frames processed so far
    emptyRun,               \* history: length of the current, else the last, run of empty frames
    vAtLoss,                \* history: smoothedVelocity when that run began
    lastEngage,             \* history: time of the last pinch engage of this hand presence, -1 if none
    engageGap,              \* history: if the last frame engaged the pinch and an earlier frame of
                            \* this hand presence did too, the time between the two; else -1
    prevAction,             \* history: action of the frame before the last one
    treeState,              \* App: useState(TreeState.CHAOS)
    isPhotoFocused,         \* App: useState(false)
    lastFocus,              \* history: last argument of onPhotoFocusChange, FALSE if none yet
    wristDelta,             \* history: <<dX, dY>> of the last frame if it dragged, else <<0, 0>>
    twoHandRun,             \* history: number of frames with two hands in a row, up to the last
    rotationVelocity,       \* App: useRef(0), the hand velocity pending for the renderer
    pendingFrom,            \* history: number of the frame that emitted rotationVelocity, 0 if none
    added,                  \* LuxuryTree: per render tick, the hand velocity added to
                            \* velocity.current and the frame it came from
    lastProcessTimeRef,     \* useRef(0)
    loopTime,               \* timestamp of the last predictLoop callback (of the mount before any)
    requested,              \* a requestAnimationFrame(predictLoop) is pending
    ncallbacks,             \* number of predictLoop callbacks so far
    detectLog,              \* history: callback timestamps of the last two runs of detect
    other,                  \* a second run of the controller on the same frames but for the
                            \* second hand: its refs, its last action and its last emissions
    diverged,               \* history: some frame resolved Chaos or Formed in one run only
    isActive,               \* the effect's flag: TRUE until the cleanup has run
    handLandmarkerRef,      \* TRUE once the hand landmarker has been created
    cameraInit,             \* initCamera: "pending" at getUserMedia, then "settled"
    aiInit,                 \* initAI: "fileset", then "model", then "settled"
    srcObject,              \* TRUE once the stream is attached to the video element
    stream,                 \* the camera stream: "none", "live" or "stopped"
    video                   \* the video element: "nodata", "playing", "paused", "ended"

vars == <<currentZoomLevel, handsDistanceHistory, pinchState, lastWristPos,
          smoothedVelocity, now, frame, action, rotEmit, zoomEmit, focusEmit,
          stateEmit, nframes, emptyRun, vAtLoss, lastEngage, engageGap,
          prevAction, treeState, isPhotoFocused, lastFocus, wristDelta,
          twoHandRun, rotationVelocity, pendingFrom, added,
          lastProcessTimeRef, loopTime, requested, ncallbacks, detectLog,
          other, diverged,
          isActive, handLandmarkerRef, cameraInit, aiInit, srcObject, stream, video>>

\* the state of the controller, the sink and the renderer
coreVars == <<currentZoomLevel, handsDistanceHistory, pinchState, lastWristPos,
              smoothedVelocity, now, frame, action, rotEmit, zoomEmit,
              focusEmit, stateEmit, nframes, emptyRun, vAtLoss, lastEngage,
              engageGap, prevAction, treeState, isPhotoFocused, lastFocus,
              wristDelta, twoHandRun, rotationVelocity, pendingFrom, added>>

\* the second run
twinVars == <<other, diverged>>

\* the state of the effect that starts the camera and the landmarker
mountVars == <<isActive, handLandmarkerRef, cameraInit, aiInit, srcObject, stream, video>>

\* the state of the detection loop
loopVars == <<lastProcessTimeRef, loopTime, requested, ncallbacks, detectLog>>

(***************************************************************************)
(* Bounds of the model.                                                    *)
(***************************************************************************)
\* frames processed in one behaviour (it also bounds the denominators 5^e)
MaxFrames == 6

\* frames processed in one behaviour of the arbitration specification Spec
MaxArbFrames == 4

\* render ticks in one behaviour
MaxTicks == 3

\* predictLoop callbacks in one behaviour
MaxCallbacks == 6
\* frames of a two-run scenario
MaxTwinFrames == 3
\* predictLoop callbacks between mount and unmount
MaxMountCallbacks == 3

(***************************************************************************)
(* Configuration constants of the program.                                 *)
(***************************************************************************)
DOUBLE_PINCH_TIMING == 400
FIST_THRESHOLD == 200
CHAOS_SPREAD_SPEED_THRESHOLD == 15
ROTATION_THRESHOLD == 10
ZOOM_THRESHOLD == 5
ROTATION_SENSITIVITY == 20
ZOOM_SENSITIVITY == 2
PINCH_THRESHOLD == 60
DETECTION_INTERVAL == 33
\* App.handleHandRotate ignores velocities up to 0.0001
ROTATE_EPSILON == 100
HISTORY_CAPACITY == 5
MIN_SPREAD_SAMPLES == 3
SNAP_EPSILON == 1000
INITIAL_ZOOM == 500
ZOOM_MAX == 1000

(***************************************************************************)
(* Arithmetic helpers.                                                     *)
(***************************************************************************)
Abs(x) == IF x < 0 THEN -x ELSE x

Sign(x) == IF x > 0 THEN 1 ELSE IF x < 0 THEN -1 ELSE 0

Min(a, b) == IF a < b THEN a ELSE b

Max(a, b) == IF a > b THEN a ELSE b

RECURSIVE SqrtSearch(_, _, _)
SqrtSearch(n, lo, hi) ==
    IF lo = hi THEN lo
    ELSE LET mid == (lo + hi + 1) \div 2
         IN  IF mid * mid <= n THEN SqrtSearch(n, mid, hi)
                               ELSE SqrtSearch(n, lo, mid - 1)

\* Math.hypot on thousandths, rounded down to a whole thousandth.  The poses
\* and the wrist positions of Spec, SpecPinch and SpecSpread only produce
\* distances that are whole thousandths.
Hypot(dx, dy) == SqrtSearch(dx * dx + dy * dy, 0, 1500)

RECURSIVE Pow5(_)
Pow5(e) == IF e = 0 THEN 1 ELSE 5 * Pow5(e - 1)

\* Math.pow(val, 1.2) for val in thousandths, result in units of 10^-6
\* (rounded to the nearest unit).
Pow12(val) ==
    CASE val = 0  -> 0
      [] val = 1  -> 251
      [] val = 2  -> 577
      [] val = 3  -> 939
      [] val = 4  -> 1326
      [] val = 5  -> 1733
      [] val = 6  -> 2157
      [] val = 7  -> 2595
      [] val = 8  -> 3046
      [] val = 9  -> 3508
      [] val = 10 -> 3981
      [] val = 11 -> 4463
      [] val = 12 -> 4955

(***************************************************************************)
(* Rotation velocities: exact rationals n / 5^e (units of 10^-6).          *)
(***************************************************************************)
RECURSIVE Reduce(_)
Reduce(v) ==
    IF v.n = 0 THEN [n |-> 0, e |-> 0]
    ELSE IF v.e > 0 /\ v.n % 5 = 0 THEN Reduce([n |-> v.n \div 5, e |-> v.e - 1])
    ELSE v

VelZero == [n |-> 0, e |-> 0]

\* |v| > t for an integer t (units of 10^-6)
VelAbsGt(v, t) == Abs(v.n) > t * Pow5(v.e)

(***************************************************************************)
(* Hands.  A hand holds the landmarks the program reads: wrist (0), thumb  *)
(* tip (4) and the index, middle, ring and pinky tips (8, 12, 16, 20),     *)
(* each a point <<x, y>>.                                                  *)
(***************************************************************************)
Pt(w, dx, dy) == <<w[1] + dx, w[2] + dy>>

\* The hand with wrist w in one of the poses the model feeds.
MkHand(w, pose) ==
    CASE pose = "open" ->
           [wrist |-> w, thumbTip |-> Pt(w, 80, 240), indexTip |-> Pt(w, 0, 300),
            middleTip |-> Pt(w, 0, 320), ringTip |-> Pt(w, 0, 300),
            pinkyTip |-> Pt(w, 0, 280)]
      [] pose = "pinch" ->
           [wrist |-> w, thumbTip |-> Pt(w, 30, 260), indexTip |-> Pt(w, 0, 300),
            middleTip |-> Pt(w, 0, 320), ringTip |-> Pt(w, 0, 300),
            pinkyTip |-> Pt(w, 0, 280)]
      [] pose = "fist" ->
           [wrist |-> w, thumbTip |-> Pt(w, 80, 60), indexTip |-> Pt(w, 0, 120),
            middleTip |-> Pt(w, 0, 130), ringTip |-> Pt(w, 0, 120),
            pinkyTip |-> Pt(w, 66, 88)]
      [] pose = "fistpinch" ->
           [wrist |-> w, thumbTip |-> Pt(w, 30, 80), indexTip |-> Pt(w, 0, 120),
            middleTip |-> Pt(w, 0, 130), ringTip |-> Pt(w, 0, 120),
            pinkyTip |-> Pt(w, 66, 88)]
      [] pose = "edge" ->
           [wrist |-> w, thumbTip |-> Pt(w, 60, 200), indexTip |-> Pt(w, 0, 200),
            middleTip |-> Pt(w, 0, 200), ringTip |-> Pt(w, 0, 200),
            pinkyTip |-> Pt(w, 0, 200)]

(***************************************************************************)
(* Geometric features (all computed inside processGestures).               *)
(***************************************************************************)
\* dist of the two wrists
InterHandDistance(h1, h2) ==
    Hypot(h1.wrist[1] - h2.wrist[1], h1.wrist[2] - h2.wrist[2])

TipDist(hand, tip) == Hypot(tip[1] - hand.wrist[1], tip[2] - hand.wrist[2])

\* avgTipDist of checkFist
FistClosure(hand) ==
    (TipDist(hand, hand.indexTip) + TipDist(hand, hand.middleTip)
       + TipDist(hand, hand.ringTip) + TipDist(hand, hand.pinkyTip)) \div 4

checkFist(hand) == FistClosure(hand) < FIST_THRESHOLD

\* pinchDist of the primary hand
PinchDistance(hand) ==
    Hypot(hand.thumbTip[1] - hand.indexTip[1], hand.thumbTip[2] - hand.indexTip[2])

IsCurrentlyPinched(hand) == PinchDistance(hand) < PINCH_THRESHOLD

(***************************************************************************)
(* Rule 1 helpers: the two-hand spread.                                    *)
(***************************************************************************)
\* Mutant of PushDistance: a full history refuses the new sample.
PushDistanceKeepsOldest(hist, dist) ==
    IF Len(hist) >= HISTORY_CAPACITY THEN hist ELSE Append(hist, dist)

\* push, then shift when longer than the capacity
PushDistance(hist, dist) ==
    LET pushed == Append(hist, dist)
    IN  IF Len(pushed) > HISTORY_CAPACITY THEN Tail(pushed) ELSE pushed

\* Mutant of SpreadHistory: a frame with one hand keeps the history.
SpreadHistoryKeptByOneHand(hist, landmarksArray) ==
    IF Len(landmarksArray) > 1
    THEN PushDistance(hist, InterHandDistance(landmarksArray[1], landmarksArray[2]))
    ELSE hist

\* handsDistanceHistory after the spread block of a frame with a hand
SpreadHistory(hist, landmarksArray) ==
    IF Len(landmarksArray) > 1
    THEN PushDistance(hist, InterHandDistance(landmarksArray[1], landmarksArray[2]))
    ELSE <<>>

\* Mutant of IsSpreading: compares against the previous sample, not the oldest.
IsSpreadingFromPrevious(hist) ==
    /\ Len(hist) >= MIN_SPREAD_SAMPLES
    /\ hist[Len(hist)] - hist[Len(hist) - 1] > CHAOS_SPREAD_SPEED_THRESHOLD

\* isSpreading, from the history as updated by this frame
IsSpreading(hist) ==
    /\ Len(hist) >= MIN_SPREAD_SAMPLES
    /\ hist[Len(hist)] - hist[1] > CHAOS_SPREAD_SPEED_THRESHOLD

(***************************************************************************)
(* Rule 2 helper: the fist of any present hand.                            *)
(***************************************************************************)
\* Mutant of AnyFist: only the primary hand is tested.
AnyFistPrimaryOnly(landmarksArray) == checkFist(landmarksArray[1])

AnyFist(landmarksArray) ==
    \/ checkFist(landmarksArray[1])
    \/ (Len(landmarksArray) > 1 /\ checkFist(landmarksArray[2]))

(***************************************************************************)
(* Rule 3 helpers: pinch edges and the double-pinch lock.                  *)
(***************************************************************************)
\* Mutant of PinchEngage: the window includes its end point.
PinchEngageInclusive(ps, isPinchedNow, t) ==
    IF isPinchedNow /\ ~ps.isPinched
    THEN IF t - ps.lastPinchReleaseTime <= DOUBLE_PINCH_TIMING
         THEN [ps EXCEPT !.clickCount = 2, !.isLocked = TRUE]
         ELSE [ps EXCEPT !.clickCount = 1]
    ELSE ps

\* rising edge of the pinch
PinchEngage(ps, isPinchedNow, t) ==
    IF isPinchedNow /\ ~ps.isPinched
    THEN IF t - ps.lastPinchReleaseTime < DOUBLE_PINCH_TIMING
         THEN [ps EXCEPT !.clickCount = 2, !.isLocked = TRUE]
         ELSE [ps EXCEPT !.clickCount = 1]
    ELSE ps

\* Mutant of PinchRelease: the falling edge leaves the lock set.
PinchReleaseKeepsLock(ps, isPinchedNow, t) ==
    IF ~isPinchedNow /\ ps.isPinched
    THEN [ps EXCEPT !.lastPinchReleaseTime = t]
    ELSE ps

\* Mutant of PinchRelease: only the release of a lock records its time.
PinchReleaseOnlyLocked(ps, isPinchedNow, t) ==
    IF ~isPinchedNow /\ ps.isPinched /\ ps.isLocked
    THEN [ps EXCEPT !.lastPinchReleaseTime = t, !.isLocked = FALSE,
                    !.clickCount = 0]
    ELSE ps

\* falling edge of the pinch
PinchRelease(ps, isPinchedNow, t) ==
    IF ~isPinchedNow /\ ps.isPinched
    THEN IF ps.isLocked
         THEN [ps EXCEPT !.lastPinchReleaseTime = t, !.isLocked = FALSE,
                         !.clickCount = 0]
         ELSE [ps EXCEPT !.lastPinchReleaseTime = t]
    ELSE ps

\* onPhotoFocusChange(false) of the falling edge that clears a lock
ReleaseFocusEmit(ps, isPinchedNow) ==
    IF ~isPinchedNow /\ ps.isPinched /\ ps.isLocked THEN <<FALSE>> ELSE <<>>

\* pinchState after the pinch block
PinchUpdate(ps, isPinchedNow, t) ==
    LET engaged  == PinchEngage(ps, isPinchedNow, t)
        released == PinchRelease(engaged, isPinchedNow, t)
    IN  [released EXCEPT !.isPinched = isPinchedNow]

(***************************************************************************)
(* Rule 4 helpers: drag control.                                           *)
(***************************************************************************)
\* (dX, dY) against the stored previous wrist sample
WristDelta(prev, wrist) ==
    IF prev = <<>> THEN <<0, 0>>
    ELSE <<wrist[1] - prev[1][1], wrist[2] - prev[1][2]>>

\* rotInput, in units of 10^-6
RotInput(dX) ==
    IF Abs(dX) > ROTATION_THRESHOLD
    THEN Sign(dX) * Pow12(Abs(dX) - ROTATION_THRESHOLD) * ROTATION_SENSITIVITY
    ELSE 0

\* Mutant of BlendVelocity: the impulse is added to the retained velocity.
BlendVelocityAccumulate(v, rotInput) ==
    Reduce([n |-> v.n + rotInput * Pow5(v.e), e |-> v.e])

\* Mutant of BlendVelocity: the impulse overwrites the retained velocity.
BlendVelocityOverwrite(v, rotInput) == Reduce([n |-> rotInput, e |-> 0])

\* smoothedVelocity * 0.8 + rotInput * 0.2
BlendVelocity(v, rotInput) ==
    Reduce([n |-> 4 * v.n + rotInput * Pow5(v.e), e |-> v.e + 1])

\* Mutant of ZoomUpdate: a vertical step inside the deadzone moves the level too.
ZoomUpdateNoDeadzone(zoom, dY) ==
    Max(0, Min(ZOOM_MAX, zoom + (-dY) * ZOOM_SENSITIVITY))

\* Mutant of ZoomUpdate: the accumulated level is not clamped.
ZoomUpdateNoClamp(zoom, dY) ==
    IF Abs(dY) > ZOOM_THRESHOLD THEN zoom + (-dY) * ZOOM_SENSITIVITY ELSE zoom

\* currentZoomLevel after the zoom block
ZoomUpdate(zoom, dY) ==
    IF Abs(dY) > ZOOM_THRESHOLD
    THEN Max(0, Min(ZOOM_MAX, zoom + (-dY) * ZOOM_SENSITIVITY))
    ELSE zoom

ZoomEmit(zoom, dY) ==
    IF Abs(dY) > ZOOM_THRESHOLD THEN <<ZoomUpdate(zoom, dY)>> ELSE <<>>

(***************************************************************************)
(* No-hand helpers.                                                        *)
(***************************************************************************)
\* Mutant of DecayVelocity: the retained value is snapped to 0 with the emitted one.
DecayVelocitySnap(v) ==
    IF VelAbsGt(Reduce([n |-> 4 * v.n, e |-> v.e + 1]), SNAP_EPSILON)
    THEN Reduce([n |-> 4 * v.n, e |-> v.e + 1]) ELSE VelZero

\* smoothedVelocity *= 0.8
DecayVelocity(v) == Reduce([n |-> 4 * v.n, e |-> v.e + 1])

\* Mutant of NoHandRotation: the decayed value is emitted as it is.
NoHandRotationRaw(v) == v

\* the value passed to onRotateChange by the no-hand branch
NoHandRotation(v) == IF VelAbsGt(v, SNAP_EPSILON) THEN v ELSE VelZero

(***************************************************************************)
(* processGestures: the branches, in the order the code tries them.        *)
(***************************************************************************)
\* Mutant of NoHandBranch: the pinch is cleared, the lock is not.
NoHandBranchKeepsLock ==
    /\ smoothedVelocity' = DecayVelocity(smoothedVelocity)
    /\ rotEmit' = <<NoHandRotation(DecayVelocity(smoothedVelocity))>>
    /\ pinchState' = [pinchState EXCEPT !.isPinched = FALSE]
    /\ lastWristPos' = <<>>
    /\ handsDistanceHistory' = <<>>
    /\ action' = "NONE"
    /\ zoomEmit' = <<>>
    /\ focusEmit' = <<>>
    /\ stateEmit' = <<>>
    /\ UNCHANGED currentZoomLevel

\* Mutant of NoHandBranch: the previous wrist sample survives the frame.
NoHandBranchKeepsWrist ==
    /\ smoothedVelocity' = DecayVelocity(smoothedVelocity)
    /\ rotEmit' = <<NoHandRotation(DecayVelocity(smoothedVelocity))>>
    /\ pinchState' = [pinchState EXCEPT !.isPinched = FALSE, !.isLocked = FALSE,
                                        !.clickCount = 0]
    /\ handsDistanceHistory' = <<>>
    /\ action' = "NONE"
    /\ zoomEmit' = <<>>
    /\ focusEmit' = <<>>
    /\ stateEmit' = <<>>
    /\ UNCHANGED <<currentZoomLevel, lastWristPos>>

\* landmarksArray.length === 0
NoHandBranch ==
    /\ smoothedVelocity' = DecayVelocity(smoothedVelocity)
    /\ rotEmit' = <<NoHandRotation(DecayVelocity(smoothedVelocity))>>
    /\ pinchState' = [pinchState EXCEPT !.isPinched = FALSE, !.isLocked = FALSE,
                                        !.clickCount = 0]
    /\ lastWristPos' = <<>>
    /\ handsDistanceHistory' = <<>>
    /\ action' = "NONE"
    /\ zoomEmit' = <<>>
    /\ focusEmit' = <<>>
    /\ stateEmit' = <<>>
    /\ UNCHANGED currentZoomLevel

\* Mutant of ChaosBranch: the frame resolves without the onStateChange call.
ChaosBranchNoEvent(hist) ==
    /\ handsDistanceHistory' = hist
    /\ stateEmit' = <<>>
    /\ action' = "CHAOS"
    /\ rotEmit' = <<>>
    /\ zoomEmit' = <<>>
    /\ focusEmit' = <<>>
    /\ UNCHANGED <<currentZoomLevel, pinchState, lastWristPos, smoothedVelocity>>

\* isSpreading
ChaosBranch(hist) ==
    /\ handsDistanceHistory' = hist
    /\ stateEmit' = <<"CHAOS">>
    /\ action' = "CHAOS"
    /\ rotEmit' = <<>>
    /\ zoomEmit' = <<>>
    /\ focusEmit' = <<>>
    /\ UNCHANGED <<currentZoomLevel, pinchState, lastWristPos, smoothedVelocity>>

\* Mutant of FormBranch: the fist stops the rotation with onRotateChange(0).
FormBranchStopsRotation(hist) ==
    /\ handsDistanceHistory' = hist
    /\ stateEmit' = <<"FORMED">>
    /\ action' = "FORM"
    /\ rotEmit' = <<VelZero>>
    /\ zoomEmit' = <<>>
    /\ focusEmit' = <<>>
    /\ UNCHANGED <<currentZoomLevel, pinchState, lastWristPos, smoothedVelocity>>

\* Mutant of FormBranch: the fist clears the lock as the no-hand branch does.
FormBranchClearsLock(hist) ==
    /\ handsDistanceHistory' = hist
    /\ stateEmit' = <<"FORMED">>
    /\ action' = "FORM"
    /\ rotEmit' = <<>>
    /\ zoomEmit' = <<>>
    /\ focusEmit' = <<>>
    /\ pinchState' = [pinchState EXCEPT !.isLocked = FALSE, !.clickCount = 0]
    /\ UNCHANGED <<currentZoomLevel, lastWristPos, smoothedVelocity>>

\* checkFist(hand1) || (hand2 && checkFist(hand2))
FormBranch(hist) ==
    /\ handsDistanceHistory' = hist
    /\ stateEmit' = <<"FORMED">>
    /\ action' = "FORM"
    /\ rotEmit' = <<>>
    /\ zoomEmit' = <<>>
    /\ focusEmit' = <<>>
    /\ UNCHANGED <<currentZoomLevel, pinchState, lastWristPos, smoothedVelocity>>

\* Mutant of LockedBranch: the retained velocity decays as in a no-hand frame.
LockedBranchDecays(hist, ps, released) ==
    /\ handsDistanceHistory' = hist
    /\ pinchState' = ps
    /\ focusEmit' = released \o <<TRUE>>
    /\ rotEmit' = <<VelZero>>
    /\ action' = "LOCKED_FOCUS"
    /\ zoomEmit' = <<>>
    /\ stateEmit' = <<>>
    /\ smoothedVelocity' = DecayVelocity(smoothedVelocity)
    /\ UNCHANGED <<currentZoomLevel, lastWristPos>>

\* Mutant of LockedBranch: the smoothed velocity is emitted instead of 0.
LockedBranchKeepsRotation(hist, ps, released) ==
    /\ handsDistanceHistory' = hist
    /\ pinchState' = ps
    /\ focusEmit' = released \o <<TRUE>>
    /\ rotEmit' = <<smoothedVelocity>>
    /\ action' = "LOCKED_FOCUS"
    /\ zoomEmit' = <<>>
    /\ stateEmit' = <<>>
    /\ UNCHANGED <<currentZoomLevel, lastWristPos, smoothedVelocity>>

\* pinchState.current.isLocked after the pinch block
LockedBranch(hist, ps, released) ==
    /\ handsDistanceHistory' = hist
    /\ pinchState' = ps
    /\ focusEmit' = released \o <<TRUE>>
    /\ rotEmit' = <<VelZero>>
    /\ action' = "LOCKED_FOCUS"
    /\ zoomEmit' = <<>>
    /\ stateEmit' = <<>>
    /\ UNCHANGED <<currentZoomLevel, lastWristPos, smoothedVelocity>>

\* spatial drag of the primary hand
ControlBranch(hist, ps, released, hand1) ==
    LET d == WristDelta(lastWristPos, hand1.wrist)
        v == BlendVelocity(smoothedVelocity, RotInput(d[1]))
    IN  /\ handsDistanceHistory' = hist
        /\ pinchState' = ps
        /\ focusEmit' = released
        /\ lastWristPos' = <<hand1.wrist>>
        /\ smoothedVelocity' = v
        /\ rotEmit' = <<v>>
        /\ currentZoomLevel' = ZoomUpdate(currentZoomLevel, d[2])
        /\ zoomEmit' = ZoomEmit(currentZoomLevel, d[2])
        /\ action' = "CONTROL"
        /\ stateEmit' = <<>>

\* Mutant of PrimaryHand: the hand detected last is taken as the primary hand.
PrimaryHandLast(landmarksArray) == landmarksArray[Len(landmarksArray)]

\* hand1: the first detected hand drives pinch, rotation and zoom
PrimaryHand(landmarksArray) == landmarksArray[1]

\* Mutant of ProcessGestures: the lock is tested before the fist.
ProcessGesturesLockFirst(landmarksArray, t) ==
    IF Len(landmarksArray) = 0 THEN NoHandBranch
    ELSE
      LET hand1 == landmarksArray[1]
          hist  == SpreadHistory(handsDistanceHistory, landmarksArray)
          isNow == IsCurrentlyPinched(hand1)
          ps    == PinchUpdate(pinchState, isNow, t)
          released == ReleaseFocusEmit(PinchEngage(pinchState, isNow, t), isNow)
      IN  IF IsSpreading(hist) THEN ChaosBranch(hist)
          ELSE IF ps.isLocked THEN LockedBranch(hist, ps, released)
          ELSE IF AnyFist(landmarksArray) THEN FormBranch(hist)
          ELSE ControlBranch(hist, ps, released, hand1)

\* Mutant of ProcessGestures: the fist is tested before the spread.
ProcessGesturesFistFirst(landmarksArray, t) ==
    IF Len(landmarksArray) = 0 THEN NoHandBranch
    ELSE
      LET hand1 == landmarksArray[1]
          hist  == SpreadHistory(handsDistanceHistory, landmarksArray)
          isNow == IsCurrentlyPinched(hand1)
          ps    == PinchUpdate(pinchState, isNow, t)
          released == ReleaseFocusEmit(PinchEngage(pinchState, isNow, t), isNow)
      IN  IF AnyFist(landmarksArray) THEN FormBranch(hist)
          ELSE IF IsSpreading(hist) THEN ChaosBranch(hist)
          ELSE IF ps.isLocked THEN LockedBranch(hist, ps, released)
          ELSE ControlBranch(hist, ps, released, hand1)

\* the body of processGestures for the frame landmarksArray read at time t
ProcessGestures(landmarksArray, t) ==
    IF Len(landmarksArray) = 0 THEN NoHandBranch
    ELSE
      LET hand1 == PrimaryHand(landmarksArray)
          hist  == SpreadHistory(handsDistanceHistory, landmarksArray)
          isNow == IsCurrentlyPinched(hand1)
          ps    == PinchUpdate(pinchState, isNow, t)
          released == ReleaseFocusEmit(PinchEngage(pinchState, isNow, t), isNow)
      IN  IF IsSpreading(hist) THEN ChaosBranch(hist)
          ELSE IF AnyFist(landmarksArray) THEN FormBranch(hist)
          ELSE IF ps.isLocked THEN LockedBranch(hist, ps, released)
          ELSE ControlBranch(hist, ps, released, hand1)

(***************************************************************************)
(* One detection cycle: detect() hands results.landmarks to                *)
(* processGestures, which reads the clock.  dt is the time since the       *)
(* previous processed frame.                                               *)
(***************************************************************************)
\* App.handleHandStateChange on the sink state [treeState, isPhotoFocused]
handleHandStateChange(sink, newState) ==
    [treeState |-> newState,
     isPhotoFocused |-> IF newState = "FORMED" THEN FALSE ELSE sink.isPhotoFocused]

\* App.handleHandFocus
handleHandFocus(sink, isFocused) == [sink EXCEPT !.isPhotoFocused = isFocused]

\* the sink after the calls of one frame: the onPhotoFocusChange calls in
\* order, then the onStateChange calls (no frame makes calls of both kinds)
RECURSIVE DeliverFocus(_, _)
DeliverFocus(sink, calls) ==
    IF calls = <<>> THEN sink
    ELSE DeliverFocus(handleHandFocus(sink, Head(calls)), Tail(calls))

RECURSIVE DeliverState(_, _)
DeliverState(sink, calls) ==
    IF calls = <<>> THEN sink
    ELSE DeliverState(handleHandStateChange(sink, Head(calls)), Tail(calls))

SinkAfterFrame ==
    DeliverState(DeliverFocus([treeState |-> treeState,
                               isPhotoFocused |-> isPhotoFocused], focusEmit'),
                 stateEmit')

\* App.handleHandRotate on the pending hand velocity
handleHandRotate(pending, velocity) ==
    IF VelAbsGt(velocity, ROTATE_EPSILON) THEN velocity ELSE pending

\* the pending hand velocity after the onRotateChange calls of one frame
RECURSIVE DeliverRotate(_, _)
DeliverRotate(pending, calls) ==
    IF calls = <<>> THEN pending
    ELSE DeliverRotate(handleHandRotate(pending, Head(calls)), Tail(calls))

\* the step observes a rising edge of pinchState.isPinched
EngageEdge == ~pinchState.isPinched /\ pinchState'.isPinched

Detect(landmarksArray, dt) ==
    /\ nframes' = nframes + 1
    /\ now' = now + dt
    /\ frame' = landmarksArray
    /\ ProcessGestures(landmarksArray, now + dt)
    /\ emptyRun' = IF Len(landmarksArray) > 0 THEN emptyRun
                   ELSE IF action = "NONE" THEN emptyRun + 1 ELSE 1
    /\ vAtLoss' = IF Len(landmarksArray) = 0 /\ action # "NONE"
                  THEN smoothedVelocity ELSE vAtLoss
    /\ lastEngage' =
         IF Len(landmarksArray) = 0 THEN -1
         ELSE IF EngageEdge THEN now + dt ELSE lastEngage
    /\ engageGap' =
         IF Len(landmarksArray) > 0 /\ EngageEdge /\ lastEngage >= 0
         THEN now + dt - lastEngage ELSE -1
    /\ prevAction' = action
    /\ treeState' = SinkAfterFrame.treeState
    /\ isPhotoFocused' = SinkAfterFrame.isPhotoFocused
    /\ lastFocus' = IF focusEmit' = <<>> THEN lastFocus
                    ELSE focusEmit'[Len(focusEmit')]
    /\ wristDelta' = IF action' = "CONTROL"
                     THEN WristDelta(lastWristPos, landmarksArray[1].wrist)
                     ELSE <<0, 0>>
    /\ twoHandRun' = IF Len(landmarksArray) = 2 THEN twoHandRun + 1 ELSE 0
    /\ rotationVelocity' = DeliverRotate(rotationVelocity, rotEmit')
    /\ pendingFrom' = IF rotationVelocity' = rotationVelocity
                         /\ \A i \in 1..Len(rotEmit') :
                               ~VelAbsGt(rotEmit'[i], ROTATE_EPSILON)
                      THEN pendingFrom ELSE nframes + 1
    /\ UNCHANGED added

\* a detection cycle of a loop that passes its throttle every dt
Frame(landmarksArray, dt) ==
    /\ Detect(landmarksArray, dt)
    /\ UNCHANGED loopVars
    /\ UNCHANGED twinVars
    /\ UNCHANGED mountVars

(***************************************************************************)
(* Inputs of the model.                                                    *)
(***************************************************************************)
\* performance.now() when the controller mounts: the time origin, or later
MountTimes == {0, 1000}

\* time between two processed frames
Dts == {100, 400}

Poses == {"open", "pinch", "fist", "fistpinch"}

HomeWrist == <<500, 500>>

\* a second position of the primary wrist, outside both deadzones from HomeWrist
AwayWrist == <<512, 200>>

\* wrist positions of the dragging hand: steps inside and outside the deadzones
Wrists == {<<500, 500>>, <<511, 500>>, <<512, 500>>, <<500, 504>>, <<500, 200>>}

\* wrist positions of the second hand: inter-hand distances 0.100, 0.110, 0.130
SecondWrists == {<<600, 500>>, <<610, 500>>, <<630, 500>>}

\* wrist positions of the second hand of the spread scenario:
\* inter-hand distances 0.10, 0.11, 0.13, 0.16, 0.20 and a diagonal 0.05
SpreadWrists == {<<600, 500>>, <<610, 500>>, <<630, 500>>, <<660, 500>>,
                 <<700, 500>>, <<530, 540>>}

\* poses of the two hands of a two-hand frame
PosePairs == {<<"open", "open">>, <<"pinch", "open">>, <<"pinch", "fist">>,
              <<"fistpinch", "open">>}

InitRefs ==
    /\ currentZoomLevel = INITIAL_ZOOM
    /\ handsDistanceHistory = <<>>
    /\ pinchState = [isPinched |-> FALSE, lastPinchReleaseTime |-> 0,
                     clickCount |-> 0, isLocked |-> FALSE]
    /\ lastWristPos = <<>>
    /\ smoothedVelocity = VelZero
    /\ now \in MountTimes
    /\ frame = <<>>
    /\ action = "INIT"
    /\ rotEmit = <<>>
    /\ zoomEmit = <<>>
    /\ focusEmit = <<>>
    /\ stateEmit = <<>>
    /\ nframes = 0
    /\ emptyRun = 0
    /\ vAtLoss = VelZero
    /\ lastEngage = -1
    /\ engageGap = -1
    /\ prevAction = "INIT"
    /\ treeState = "CHAOS"
    /\ isPhotoFocused = FALSE
    /\ lastFocus = FALSE
    /\ wristDelta = <<0, 0>>
    /\ twoHandRun = 0
    /\ rotationVelocity = VelZero
    /\ pendingFrom = 0
    /\ added = <<>>
    /\ lastProcessTimeRef = 0
    /\ loopTime = now
    /\ ncallbacks = 0
    /\ detectLog = <<>>
    /\ other = [currentZoomLevel |-> INITIAL_ZOOM,
                handsDistanceHistory |-> <<>>,
                pinchState |-> [isPinched |-> FALSE, lastPinchReleaseTime |-> 0,
                                clickCount |-> 0, isLocked |-> FALSE],
                lastWristPos |-> <<>>,
                smoothedVelocity |-> VelZero,
                action |-> "INIT",
                rotEmit |-> <<>>, zoomEmit |-> <<>>, focusEmit |-> <<>>,
                stateEmit |-> <<>>]
    /\ diverged = FALSE

\* The state once the camera runs and the landmarker is loaded: the stream
\* is attached and playing and the detection loop has been requested.
Init ==
    /\ InitRefs
    /\ requested = TRUE
    /\ isActive = TRUE
    /\ handLandmarkerRef = TRUE
    /\ cameraInit = "settled"
    /\ aiInit = "settled"
    /\ srcObject = TRUE
    /\ stream = "live"
    /\ video = "playing"

\* a frame without hands
ArbNoHandFrame ==
    /\ nframes < MaxArbFrames
    /\ Frame(<<>>, 100)

\* a frame with one hand in any pose, moved or not
GestureFrame ==
    /\ nframes < MaxArbFrames
    /\ \E p \in Poses, w \in {HomeWrist, AwayWrist} : Frame(<<MkHand(w, p)>>, 100)

\* a frame with two hands
TwoHandFrame ==
    /\ nframes < MaxArbFrames
    /\ \E pp \in PosePairs, w2 \in SecondWrists :
          Frame(<<MkHand(HomeWrist, pp[1]), MkHand(w2, pp[2])>>, 100)

Next == ArbNoHandFrame \/ GestureFrame \/ TwoHandFrame

\* Arbitration between the rules: every pose, one or two hands, the lock.
Spec == Init /\ [][Next]_vars

\* a frame without hands
NoHandFrame ==
    /\ nframes < MaxFrames
    /\ Frame(<<>>, 100)

\* a frame with one open hand anywhere
DragFrame ==
    /\ nframes < MaxFrames
    /\ \E w \in Wrists : Frame(<<MkHand(w, "open")>>, 100)

\* a frame with two open hands, the primary one moved or not
TwoHandDragFrame ==
    /\ nframes < MaxFrames
    /\ \E w \in {HomeWrist, AwayWrist} :
          Frame(<<MkHand(w, "open"), MkHand(<<700, 500>>, "open")>>, 100)

\* a frame with a fist, which neither drags nor samples the wrist
DragFistFrame ==
    /\ nframes < MaxFrames
    /\ Frame(<<MkHand(HomeWrist, "fist")>>, 100)

NextDrag == NoHandFrame \/ DragFrame \/ TwoHandDragFrame \/ DragFistFrame

\* Drag control and signal loss: rotation smoothing, decay and zoom.
SpecDrag == Init /\ [][NextDrag]_vars

\* a frame with one still hand, pinched or not
PinchFrame ==
    /\ nframes < MaxFrames
    /\ \E p \in {"open", "pinch", "edge"}, dt \in Dts :
          Frame(<<MkHand(HomeWrist, p)>>, dt)

\* a frame with a fist, which hides the pinch from the pinch rule
FistFrame ==
    /\ nframes < MaxFrames
    /\ \E dt \in Dts : Frame(<<MkHand(HomeWrist, "fistpinch")>>, dt)

NextPinch == NoHandFrame \/ PinchFrame \/ FistFrame

\* Pinch edges and the timing of the double pinch.
SpecPinch == Init /\ [][NextPinch]_vars

\* a frame with two open hands at one of the scenario's distances
SpreadFrame ==
    /\ nframes < MaxFrames
    /\ \E w2 \in SpreadWrists :
          Frame(<<MkHand(HomeWrist, "open"), MkHand(w2, "open")>>, 100)

\* a frame with one open hand
OneHandFrame ==
    /\ nframes < MaxFrames
    /\ Frame(<<MkHand(HomeWrist, "open")>>, 100)

NextSpread == NoHandFrame \/ OneHandFrame \/ SpreadFrame

\* The two-hand spread and its distance history.
SpecSpread == Init /\ [][NextSpread]_vars

\* horizontal steps of a swiping wrist: none, and just beyond the deadzone
SwipeSteps == {-12, -11, 0, 11, 12}

\* a frame with one open hand, moved by one step from where it was last seen
SwipeFrame ==
    /\ nframes < MaxFrames
    /\ \E step \in SwipeSteps :
          LET from == IF lastWristPos = <<>> THEN HomeWrist ELSE lastWristPos[1]
          IN  Frame(<<MkHand(<<from[1] + step, from[2]>>, "open")>>, 100)

NextSwipe == NoHandFrame \/ SwipeFrame

\* Sustained horizontal dragging, with and without signal loss.
SpecSwipe == Init /\ [][NextSwipe]_vars

(***************************************************************************)
(* Two runs of the controller on frame sequences that differ in the        *)
(* landmarks of the second hand only.  The second run is kept in the       *)
(* record other; processGestures is applied to it as a function.           *)
(***************************************************************************)
\* processGestures on the refs st of a run: the refs, the action and the
\* emissions after the frame landmarksArray read at time t
ProcessGesturesOf(st, landmarksArray, t) ==
    IF Len(landmarksArray) = 0
    THEN LET v == DecayVelocity(st.smoothedVelocity)
         IN  [st EXCEPT !.smoothedVelocity = v,
                        !.rotEmit = <<NoHandRotation(v)>>,
                        !.pinchState = [@ EXCEPT !.isPinched = FALSE,
                                                 !.isLocked = FALSE,
                                                 !.clickCount = 0],
                        !.lastWristPos = <<>>,
                        !.handsDistanceHistory = <<>>,
                        !.action = "NONE",
                        !.zoomEmit = <<>>, !.focusEmit = <<>>,
                        !.stateEmit = <<>>]
    ELSE
      LET hand1 == PrimaryHand(landmarksArray)
          hist  == SpreadHistory(st.handsDistanceHistory, landmarksArray)
          isNow == IsCurrentlyPinched(hand1)
          ps    == PinchUpdate(st.pinchState, isNow, t)
          released == ReleaseFocusEmit(PinchEngage(st.pinchState, isNow, t), isNow)
          d == WristDelta(st.lastWristPos, hand1.wrist)
          v == BlendVelocity(st.smoothedVelocity, RotInput(d[1]))
      IN  IF IsSpreading(hist)
          THEN [st EXCEPT !.handsDistanceHistory = hist,
                          !.stateEmit = <<"CHAOS">>, !.action = "CHAOS",
                          !.rotEmit = <<>>, !.zoomEmit = <<>>,
                          !.focusEmit = <<>>]
          ELSE IF AnyFist(landmarksArray)
          THEN [st EXCEPT !.handsDistanceHistory = hist,
                          !.stateEmit = <<"FORMED">>, !.action = "FORM",
                          !.rotEmit = <<>>, !.zoomEmit = <<>>,
                          !.focusEmit = <<>>]
          ELSE IF ps.isLocked
          THEN [st EXCEPT !.handsDistanceHistory = hist,
                          !.pinchState = ps,
                          !.focusEmit = released \o <<TRUE>>,
                          !.rotEmit = <<VelZero>>,
                          !.action = "LOCKED_FOCUS",
                          !.zoomEmit = <<>>, !.stateEmit = <<>>]
          ELSE [st EXCEPT !.handsDistanceHistory = hist,
                          !.pinchState = ps,
                          !.focusEmit = released,
                          !.lastWristPos = <<hand1.wrist>>,
                          !.smoothedVelocity = v,
                          !.rotEmit = <<v>>,
                          !.currentZoomLevel = ZoomUpdate(@, d[2]),
                          !.zoomEmit = ZoomEmit(st.currentZoomLevel, d[2]),
                          !.action = "CONTROL",
                          !.stateEmit = <<>>]

\* the frame resolved Chaos or Formed
ModeAction(a) == a \in {"CHAOS", "FORM"}

\* both runs process a frame; the second run sees landmarksB
TwinDetect(landmarksA, landmarksB, dt) ==
    /\ Detect(landmarksA, dt)
    /\ other' = ProcessGesturesOf(other, landmarksB, now + dt)
    /\ diverged' = (diverged \/ (ModeAction(action') # ModeAction(other'.action)))
    /\ UNCHANGED loopVars
    /\ UNCHANGED mountVars

\* the primary hand of the two-run scenario: open and moved away, or pinching
TwinPrimaryHands == {MkHand(AwayWrist, "open"), MkHand(HomeWrist, "pinch")}

\* the second hand: open with its wrist at x = 0.600 or 0.630, or a fist
TwinSecondHands == {MkHand(<<600, 500>>, "open"), MkHand(<<630, 500>>, "open"),
                    MkHand(<<600, 500>>, "fist")}

\* a frame with no hand or with the primary hand alone, the same in both runs
TwinSameFrame ==
    /\ nframes < MaxTwinFrames
    /\ \E landmarksArray \in {<<>>} \cup {<<h>> : h \in TwinPrimaryHands} :
          TwinDetect(landmarksArray, landmarksArray, 100)

\* a frame with two hands, the second hand of each run chosen freely
TwinTwoHandFrame ==
    /\ nframes < MaxTwinFrames
    /\ \E h1 \in TwinPrimaryHands, a \in TwinSecondHands, b \in TwinSecondHands :
          TwinDetect(<<h1, a>>, <<h1, b>>, 100)

NextTwin == TwinSameFrame \/ TwinTwoHandFrame

\* Two runs that differ in the second hand.
SpecTwin == Init /\ [][NextTwin]_vars

(***************************************************************************)
(* The detection loop: predictLoop, called back once per animation frame.  *)
(***************************************************************************)
\* time - lastProcessTimeRef.current < DETECTION_INTERVAL
Throttled(time, last) == time - last < DETECTION_INTERVAL

\* Mutant of ProcessTimeAfterRun: the next run is due one interval after the
\* time the last one was due.
ProcessTimeFixedRate(time, last) == last + DETECTION_INTERVAL

\* lastProcessTimeRef.current after a run of detect
ProcessTimeAfterRun(time, last) == time

\* requestAnimationFrame(predictLoop), the first statement of the callback
Reschedule(throttled) == TRUE

\* time between two animation-frame callbacks
LoopDts == {0, 16, 17, 33}

\* the last two runs of detect, with a run at time
LogRun(log, time) ==
    IF Len(log) < 2 THEN Append(log, time) ELSE <<log[2], time>>

\* Mutant of DetectReady: detect goes ahead without the landmarker.
DetectReadyVideoOnly(landmarker, attached, vstate) == attached /\ vstate = "playing"

\* detect passes its guards: the landmarker exists and the video has a stream,
\* is neither paused nor ended and has frame data
DetectReady(landmarker, attached, vstate) ==
    landmarker /\ attached /\ vstate = "playing"

\* a callback inside the throttle interval
ThrottledRun ==
    /\ requested
    /\ \E d \in LoopDts :
          /\ Throttled(loopTime + d, lastProcessTimeRef)
          /\ loopTime' = loopTime + d
    /\ requested' = Reschedule(TRUE)
    /\ ncallbacks' = ncallbacks + 1
    /\ UNCHANGED <<lastProcessTimeRef, detectLog>>
    /\ UNCHANGED coreVars
    /\ UNCHANGED twinVars
    /\ UNCHANGED mountVars

\* a callback that runs detect while the landmarker or the video is not ready
IdleDetectRun ==
    /\ requested
    /\ ~DetectReady(handLandmarkerRef, srcObject, video)
    /\ \E d \in LoopDts :
          /\ ~Throttled(loopTime + d, lastProcessTimeRef)
          /\ loopTime' = loopTime + d
    /\ requested' = Reschedule(FALSE)
    /\ ncallbacks' = ncallbacks + 1
    /\ lastProcessTimeRef' = ProcessTimeAfterRun(loopTime', lastProcessTimeRef)
    /\ detectLog' = LogRun(detectLog, loopTime')
    /\ UNCHANGED coreVars
    /\ UNCHANGED twinVars
    /\ UNCHANGED mountVars

\* a callback that runs detect on a video frame with no hand or one open hand
DetectRun ==
    /\ requested
    /\ DetectReady(handLandmarkerRef, srcObject, video)
    /\ \E d \in LoopDts :
          /\ ~Throttled(loopTime + d, lastProcessTimeRef)
          /\ loopTime' = loopTime + d
          /\ \E landmarksArray \in {<<>>, <<MkHand(HomeWrist, "open")>>} :
                Detect(landmarksArray, loopTime + d - now)
    /\ requested' = Reschedule(FALSE)
    /\ ncallbacks' = ncallbacks + 1
    /\ lastProcessTimeRef' = ProcessTimeAfterRun(loopTime', lastProcessTimeRef)
    /\ detectLog' = LogRun(detectLog, loopTime')
    /\ UNCHANGED twinVars
    /\ UNCHANGED mountVars

\* the video element pauses, resumes or ends while the stream is attached
VideoEvent ==
    /\ srcObject
    /\ video # "nodata"
    /\ \E vstate \in {"playing", "paused", "ended"} \ {video} : video' = vstate
    /\ UNCHANGED <<isActive, handLandmarkerRef, cameraInit, aiInit, srcObject, stream>>
    /\ UNCHANGED coreVars
    /\ UNCHANGED twinVars
    /\ UNCHANGED loopVars

ThrottledCallback ==
    /\ ncallbacks < MaxCallbacks
    /\ ThrottledRun

IdleDetectCallback ==
    /\ ncallbacks < MaxCallbacks
    /\ IdleDetectRun

DetectCallback ==
    /\ ncallbacks < MaxCallbacks
    /\ DetectRun

NextLoop == ThrottledCallback \/ IdleDetectCallback \/ DetectCallback \/ VideoEvent

\* The throttled detection loop.
SpecLoop == Init /\ [][NextLoop]_vars


(***************************************************************************)
(* The effect of HandController: initCamera and initAI run in parallel,    *)
(* each resuming when its promise settles, and the cleanup runs at         *)
(* unmount.  Every action is one uninterrupted run of JavaScript.          *)
(***************************************************************************)
\* The state when the effect has called initCamera and initAI: both wait for
\* their first promise, no stream, no landmarker, no loop.
InitMount ==
    /\ InitRefs
    /\ requested = FALSE
    /\ isActive = TRUE
    /\ handLandmarkerRef = FALSE
    /\ cameraInit = "pending"
    /\ aiInit = "fileset"
    /\ srcObject = FALSE
    /\ stream = "none"
    /\ video = "nodata"

\* isActive && videoRef.current, tested when getUserMedia has resolved
StreamAttached(active, mounted) == active /\ mounted

\* getUserMedia resolves with a stream; videoRef.current is the element while
\* the component is mounted and may be null once it is not
CameraGranted ==
    /\ cameraInit = "pending"
    /\ cameraInit' = "settled"
    /\ stream' = "live"
    /\ \E mounted \in (IF isActive THEN {TRUE} ELSE BOOLEAN) :
          /\ srcObject' = StreamAttached(isActive, mounted)
          /\ requested' = StreamAttached(isActive, mounted)
    /\ UNCHANGED <<isActive, handLandmarkerRef, aiInit, video>>
    /\ UNCHANGED <<lastProcessTimeRef, loopTime, ncallbacks, detectLog>>
    /\ UNCHANGED coreVars
    /\ UNCHANGED twinVars

\* both getUserMedia calls reject
CameraDenied ==
    /\ cameraInit = "pending"
    /\ cameraInit' = "settled"
    /\ UNCHANGED <<isActive, handLandmarkerRef, aiInit, srcObject, stream, video>>
    /\ UNCHANGED coreVars
    /\ UNCHANGED twinVars
    /\ UNCHANGED loopVars

\* onloadedmetadata calls play(), which starts the video or is rejected
MetadataLoaded ==
    /\ srcObject
    /\ stream = "live"
    /\ video = "nodata"
    /\ \E vstate \in {"playing", "paused"} : video' = vstate
    /\ UNCHANGED <<isActive, handLandmarkerRef, cameraInit, aiInit, srcObject, stream>>
    /\ UNCHANGED coreVars
    /\ UNCHANGED twinVars
    /\ UNCHANGED loopVars

\* FilesetResolver.forVisionTasks resolves; initAI returns if !isActive
FilesetResolved ==
    /\ aiInit = "fileset"
    /\ aiInit' = IF isActive THEN "model" ELSE "settled"
    /\ UNCHANGED <<isActive, handLandmarkerRef, cameraInit, srcObject, stream, video>>
    /\ UNCHANGED coreVars
    /\ UNCHANGED twinVars
    /\ UNCHANGED loopVars

\* HandLandmarker.createFromOptions resolves and the ref is assigned
LandmarkerCreated ==
    /\ aiInit = "model"
    /\ aiInit' = "settled"
    /\ handLandmarkerRef' = TRUE
    /\ UNCHANGED <<isActive, cameraInit, srcObject, stream, video>>
    /\ UNCHANGED coreVars
    /\ UNCHANGED twinVars
    /\ UNCHANGED loopVars

\* either promise of initAI rejects
AIFailed ==
    /\ aiInit \in {"fileset", "model"}
    /\ aiInit' = "settled"
    /\ UNCHANGED <<isActive, handLandmarkerRef, cameraInit, srcObject, stream, video>>
    /\ UNCHANGED coreVars
    /\ UNCHANGED twinVars
    /\ UNCHANGED loopVars

\* the tracks of the stream after the cleanup's
\* if (videoRef.current && videoRef.current.srcObject) stop every track
StreamAfterCleanup(mounted, attached, tracks) ==
    IF mounted /\ attached THEN "stopped" ELSE tracks

\* the cleanup of the effect, at unmount
Cleanup ==
    /\ isActive
    /\ isActive' = FALSE
    /\ requested' = FALSE
    /\ \E mounted \in BOOLEAN : stream' = StreamAfterCleanup(mounted, srcObject, stream)
    /\ UNCHANGED <<handLandmarkerRef, cameraInit, aiInit, srcObject, video>>
    /\ UNCHANGED <<lastProcessTimeRef, loopTime, ncallbacks, detectLog>>
    /\ UNCHANGED coreVars
    /\ UNCHANGED twinVars

MountThrottledCallback ==
    /\ ncallbacks < MaxMountCallbacks
    /\ ThrottledRun

MountIdleDetectCallback ==
    /\ ncallbacks < MaxMountCallbacks
    /\ IdleDetectRun

MountDetectCallback ==
    /\ ncallbacks < MaxMountCallbacks
    /\ DetectRun

NextMount ==
    \/ CameraGranted \/ CameraDenied \/ MetadataLoaded
    \/ FilesetResolved \/ LandmarkerCreated \/ AIFailed
    \/ VideoEvent \/ Cleanup
    \/ MountThrottledCallback \/ MountIdleDetectCallback \/ MountDetectCallback

\* The component from mount to unmount.
SpecMount == InitMount /\ [][NextMount]_vars

(***************************************************************************)
(* The renderer: the part of LuxuryTree's useFrame callback that consumes  *)
(* the pending hand velocity.  velocity.current, which every tick damps by *)
(* 0.85 and adds to rotation.y, is kept as the sequence of the hand        *)
(* velocities added to it, one entry per tick.                             *)
(***************************************************************************)
\* Mutant of PendingAfterTick: the tick reads the pending velocity and leaves it.
PendingAfterTickKept(pending, focused) == pending

\* extraRotationVelocity.current after a tick
PendingAfterTick(pending, focused) == IF focused THEN pending ELSE VelZero

\* the hand velocity a tick adds (times 0.15) to velocity.current
TickAddend(pending, focused) == IF focused THEN VelZero ELSE pending

RenderTick ==
    /\ Len(added) < MaxTicks
    /\ added' = Append(added,
                       [v |-> TickAddend(rotationVelocity, isPhotoFocused),
                        from |-> IF isPhotoFocused THEN 0 ELSE pendingFrom])
    /\ rotationVelocity' = PendingAfterTick(rotationVelocity, isPhotoFocused)
    /\ pendingFrom' = IF rotationVelocity' = VelZero THEN 0 ELSE pendingFrom
    /\ UNCHANGED <<currentZoomLevel, handsDistanceHistory, pinchState,
                   lastWristPos, smoothedVelocity, now, frame, action, rotEmit,
                   zoomEmit, focusEmit, stateEmit, nframes, emptyRun, vAtLoss,
                   lastEngage, engageGap, prevAction, treeState,
                   isPhotoFocused, lastFocus, wristDelta, twoHandRun>>
    /\ UNCHANGED loopVars
    /\ UNCHANGED twinVars
    /\ UNCHANGED mountVars

\* a frame with one hand, open or pinching, still or swiping; or a fist
RenderHandFrame ==
    /\ nframes < MaxArbFrames
    /\ \/ \E p \in {"open", "pinch"}, w \in {HomeWrist, <<512, 500>>} :
             Frame(<<MkHand(w, p)>>, 100)
       \/ Frame(<<MkHand(HomeWrist, "fist")>>, 100)

NextRender == ArbNoHandFrame \/ RenderHandFrame \/ RenderTick

\* Detection frames interleaved with render ticks.
SpecRender == Init /\ [][NextRender]_vars

(***************************************************************************)
(* Properties.                                                             *)
(***************************************************************************)
\* the step processes one frame
FrameStep == nframes' = nframes + 1

\* newest - oldest retained > 0.015 over at least 3 samples
SpreadCondition(hist) == Len(hist) >= 3 /\ hist[Len(hist)] - hist[1] > 15

RECURSIVE Pow4(_)
Pow4(e) == IF e = 0 THEN 1 ELSE 4 * Pow4(e - 1)

\* |a| <= |b| for two velocities
VelAbsLeq(a, b) ==
    LET e == Max(a.e, b.e)
    IN  Abs(a.n) * Pow5(e - a.e) <= Abs(b.n) * Pow5(e - b.e)

\* v * 0.8^k
VelTimesPow08(v, k) == Reduce([n |-> v.n * Pow4(k), e |-> v.e + k])

\* C1. Priority ordering: in a frame with a hand where the spread rule does
\* not fire, a fist of some present hand together with a pinch of the primary
\* hand resolves Formed, never Locked and never Control.
PriorityOrdering ==
    ( /\ nframes > 0
      /\ Len(frame) >= 1
      /\ ~SpreadCondition(handsDistanceHistory)
      /\ \E i \in 1..Len(frame) : FistClosure(frame[i]) < FIST_THRESHOLD
      /\ PinchDistance(frame[1]) < PINCH_THRESHOLD )
    => action = "FORM"

\* a fist that is also a pinch, seen while the lock is held, resolved Formed
PriorityOrderingWitness ==
    /\ action = "FORM"
    /\ pinchState.isLocked
    /\ pinchState.lastPinchReleaseTime > 0
    /\ FistClosure(frame[1]) < FIST_THRESHOLD
    /\ PinchDistance(frame[1]) < PINCH_THRESHOLD

\* C2 as stated. Double-pinch timing measured between the two engage edges:
\* less than 400 ms apart locks, 400 ms or more apart does not.
DoublePinchEngageToEngage ==
    engageGap >= 0 =>
        /\ (engageGap < 400 => pinchState.isLocked)
        /\ (engageGap >= 400 => ~pinchState.isLocked)

\* C2 as amended. Double-pinch timing: the second of two consecutive engage
\* edges of one hand presence locks exactly when it comes less than 400 ms
\* after the release recorded between them (so always when the two engages
\* are less than 400 ms apart); otherwise it is a fresh first pinch.
DoublePinchTiming ==
    engageGap >= 0 =>
        /\ pinchState.isLocked <=> (now - pinchState.lastPinchReleaseTime < 400)
        /\ pinchState.clickCount = IF pinchState.isLocked THEN 2 ELSE 1
        /\ (engageGap < 400 => pinchState.isLocked)
        /\ pinchState.lastPinchReleaseTime > now - engageGap

\* a second engage 400 ms or more after the first that locks
DoublePinchTimingWitness ==
    /\ engageGap >= 400
    /\ pinchState.isLocked
    /\ now - pinchState.lastPinchReleaseTime < 400

\* C3. Lock suppresses rotation: a frame that ends with the lock held emits
\* no rotation velocity other than 0, and a Locked frame emits exactly 0.
LockSuppressesRotation ==
    (nframes > 0 /\ pinchState.isLocked) =>
        /\ \A i \in 1..Len(rotEmit) : rotEmit[i] = VelZero
        /\ (action = "LOCKED_FOCUS" => rotEmit = <<VelZero>>)

\* a Locked frame with a moved wrist and a non-zero smoothed velocity
LockSuppressesRotationWitness ==
    /\ action = "LOCKED_FOCUS"
    /\ pinchState.lastPinchReleaseTime > 0
    /\ smoothedVelocity # VelZero
    /\ lastWristPos # <<>>
    /\ lastWristPos[1] # frame[1].wrist
    /\ rotEmit = <<VelZero>>

\* C4. Zoom clamp: the persisted zoom level and every emitted zoom value lie
\* in [0, 1].
ZoomClamp ==
    /\ currentZoomLevel \in 0..1000
    /\ \A i \in 1..Len(zoomEmit) : zoomEmit[i] \in 0..1000

\* a drag that would take the level below 0 and was clamped
ZoomClampWitness ==
    /\ action = "CONTROL"
    /\ zoomEmit = <<0>>
    /\ currentZoomLevel = 0

\* C5. No-signal decay: within a run of empty frames the emitted rotation
\* velocity does not grow in magnitude; it is exactly 0 from the first frame
\* k of the run with |v| * 0.8^k <= 0.001 on (v the velocity when the run
\* began) and non-zero before; the zoom level holds and the lock is clear.
NoSignalDecay ==
    [][ (FrameStep /\ Len(frame') = 0) =>
          /\ Len(rotEmit') = 1
          /\ (action = "NONE" => VelAbsLeq(rotEmit'[1], rotEmit[1]))
          /\ (action = "NONE" /\ rotEmit[1] = VelZero => rotEmit'[1] = VelZero)
          /\ rotEmit'[1] = VelZero
               <=> Abs(vAtLoss'.n) * Pow4(emptyRun')
                      <= 1000 * Pow5(vAtLoss'.e + emptyRun')
          /\ currentZoomLevel' = currentZoomLevel
          /\ ~pinchState'.isLocked
      ]_vars

\* the fourth empty frame of a run emits 0 after non-zero emissions
NoSignalDecayWitness ==
    /\ action = "NONE"
    /\ emptyRun = 4
    /\ VelAbsGt(vAtLoss, 2000)
    /\ rotEmit = <<VelZero>>
    /\ smoothedVelocity # VelZero
    /\ currentZoomLevel # INITIAL_ZOOM

\* C6. Spread detection: a two-hand frame pushes the inter-wrist distance and
\* resolves Chaos exactly when the history then holds at least 3 samples and
\* newest - oldest retained > 0.015; the distances 0.10, 0.11, 0.13, 0.16,
\* 0.20 resolve Chaos from the third frame on.
SpreadDetection ==
    (nframes > 0 /\ Len(frame) = 2) =>
        LET hist == handsDistanceHistory
        IN  /\ Len(hist) \in 1..5
            /\ hist[Len(hist)] = InterHandDistance(frame[1], frame[2])
            /\ action = "CHAOS" <=> (Len(hist) >= 3 /\ hist[Len(hist)] - hist[1] > 15)
            /\ hist \in {<<100>>, <<100, 110>>} => action # "CHAOS"
            /\ hist \in {<<100, 110, 130>>, <<100, 110, 130, 160>>,
                         <<100, 110, 130, 160, 200>>} => action = "CHAOS"

\* the fifth frame of the scenario
SpreadDetectionWitness ==
    /\ Len(frame) = 2
    /\ handsDistanceHistory = <<100, 110, 130, 160, 200>>
    /\ action = "CHAOS"
    /\ prevAction = "CHAOS"

\* C7. Spread precedes every one-hand rule: a two-hand frame in which the
\* spread condition holds resolves Chaos and emits CHAOS, and changes neither
\* the pinch state nor the zoom level nor the focus.
SpreadPrecedes ==
    [][ (FrameStep /\ Len(frame') = 2 /\ SpreadCondition(handsDistanceHistory')) =>
          /\ action' = "CHAOS"
          /\ stateEmit' = <<"CHAOS">>
          /\ pinchState' = pinchState
          /\ focusEmit' = <<>>
          /\ zoomEmit' = <<>>
          /\ currentZoomLevel' = currentZoomLevel
      ]_vars

\* Chaos resolved with the lock held and a pinched fist as primary hand
SpreadPrecedesWitness ==
    /\ action = "CHAOS"
    /\ pinchState.isLocked
    /\ pinchState.lastPinchReleaseTime > 0
    /\ checkFist(frame[1])
    /\ IsCurrentlyPinched(frame[1])

\* C8. Fist: in a frame with a hand where the spread rule does not fire, a
\* mean wrist-to-fingertip distance below 0.20 of any present hand resolves
\* Formed and emits FORMED; a single hand at 0.12 resolves Formed.
FistResolvesFormed ==
    /\ ( /\ nframes > 0
         /\ Len(frame) >= 1
         /\ ~SpreadCondition(handsDistanceHistory)
         /\ \E i \in 1..Len(frame) : FistClosure(frame[i]) < 200 )
       => (action = "FORM" /\ stateEmit = <<"FORMED">>)
    /\ (nframes > 0 /\ Len(frame) = 1 /\ FistClosure(frame[1]) = 120)
       => action = "FORM"

\* only the secondary hand is a fist, at 0.12
FistResolvesFormedWitness ==
    /\ Len(frame) = 2
    /\ FistClosure(frame[1]) >= 200
    /\ FistClosure(frame[2]) = 120
    /\ action = "FORM"
    /\ stateEmit = <<"FORMED">>

\* C9. Hand loss and recovery: after k empty frames the retained velocity is
\* v * 0.8^k for the velocity v at the loss, and the first Control frame
\* after the run (the previous wrist sample is still empty) blends from it:
\* 0.8 * v * 0.8^k + 0.2 * impulse.
HandLossRecovery ==
    [][ FrameStep =>
          /\ Len(frame') = 0 =>
               smoothedVelocity' = VelTimesPow08(vAtLoss', emptyRun')
          /\ (emptyRun > 0 /\ lastWristPos = <<>> /\ action' = "CONTROL") =>
               LET base == VelTimesPow08(vAtLoss, emptyRun)
                   dX   == IF lastWristPos = <<>> THEN 0
                           ELSE frame'[1].wrist[1] - lastWristPos[1][1]
                   impulse == IF Abs(dX) > 10
                              THEN Sign(dX) * Pow12(Abs(dX) - 10) * 20 ELSE 0
               IN  /\ smoothedVelocity' =
                        Reduce([n |-> 4 * base.n + impulse * Pow5(base.e),
                                e |-> base.e + 1])
                   /\ rotEmit' = <<smoothedVelocity'>>
      ]_vars

\* the hand is back after a run whose last emission was snapped to 0
HandLossRecoveryWitness ==
    /\ prevAction = "NONE"
    /\ action = "CONTROL"
    /\ vAtLoss # VelZero
    /\ smoothedVelocity # VelZero
    /\ ~VelAbsGt(smoothedVelocity, 800)

\* C10. No-hand reset: a frame with zero hands resolves NONE and leaves the
\* pinch and the lock clear, no previous wrist sample, an empty distance
\* history and the zoom level as it was.
NoHandReset ==
    [][ (FrameStep /\ Len(frame') = 0) =>
          /\ action' = "NONE"
          /\ ~pinchState'.isPinched
          /\ ~pinchState'.isLocked
          /\ lastWristPos' = <<>>
          /\ handsDistanceHistory' = <<>>
          /\ currentZoomLevel' = currentZoomLevel
          /\ zoomEmit' = <<>>
          /\ stateEmit' = <<>>
      ]_vars

\* an empty frame right after a Locked frame, the zoom level moved before
NoHandResetWitness ==
    /\ action = "NONE"
    /\ prevAction = "LOCKED_FOCUS"
    /\ currentZoomLevel # INITIAL_ZOOM
    /\ smoothedVelocity # VelZero

\* the frame of the step has no hand whose pinch could be released, or its
\* primary hand still pinches
PinchNotReleased(f) == Len(f) = 0 \/ IsCurrentlyPinched(f[1])

\* C11 as stated.  Sticky lock: while the lock is set and the pinch has not
\* been released, every frame resolves Locked (never NoHand, Chaos, Formed or
\* Control).
StickyLockEveryFrame ==
    [][ (FrameStep /\ pinchState.isLocked /\ PinchNotReleased(frame')) =>
          action' = "LOCKED_FOCUS"
      ]_vars

\* C11. Sticky lock: while the lock is set, a frame with a hand in which
\* neither the spread nor the fist rule fires resolves Locked and keeps the
\* lock as long as the primary hand pinches, and resolves Control with the
\* lock cleared when the pinch is released; a frame in which the spread or the
\* fist rule fires resolves Chaos or Formed and keeps the lock; a frame
\* without hands resolves NoHand and clears the lock.  No frame resolves
\* Control while the lock is held.
StickyLock ==
    [][ (FrameStep /\ pinchState.isLocked) =>
          /\ action' = "CONTROL" => ~pinchState'.isLocked
          /\ IF Len(frame') = 0
             THEN action' = "NONE" /\ ~pinchState'.isLocked
             ELSE IF SpreadCondition(handsDistanceHistory')
             THEN action' = "CHAOS" /\ pinchState'.isLocked
             ELSE IF \E i \in 1..Len(frame') :
                        FistClosure(frame'[i]) < FIST_THRESHOLD
             THEN action' = "FORM" /\ pinchState'.isLocked
             ELSE IF PinchDistance(frame'[1]) < PINCH_THRESHOLD
             THEN action' = "LOCKED_FOCUS" /\ pinchState'.isLocked
             ELSE action' = "CONTROL" /\ ~pinchState'.isLocked
      ]_vars

\* a second Locked frame in a row, the lock still held
StickyLockWitness ==
    /\ prevAction = "LOCKED_FOCUS"
    /\ action = "LOCKED_FOCUS"
    /\ pinchState.isLocked
    /\ pinchState.isPinched

\* the step observes the falling edge of the pinch in the pinch block
ReleaseEdgeObserved ==
    /\ action' \in {"LOCKED_FOCUS", "CONTROL"}
    /\ pinchState.isPinched
    /\ PinchDistance(frame'[1]) >= PINCH_THRESHOLD

\* C12 as stated.  The lock is cleared only by its release edge: no other
\* frame changes is_locked from true to false.
LockClearedOnlyByRelease ==
    [][ (FrameStep /\ pinchState.isLocked /\ ~pinchState'.isLocked) =>
          ReleaseEdgeObserved
      ]_vars

\* C12. The lock is cleared only by its release edge or by a frame without
\* hands: is_locked changes from true to false only in a frame that observes
\* the falling edge of the pinch or in a frame with zero hands.
LockClearedByReleaseOrNoHand ==
    [][ (FrameStep /\ pinchState.isLocked /\ ~pinchState'.isLocked) =>
          \/ ReleaseEdgeObserved
          \/ Len(frame') = 0 /\ action' = "NONE"
      ]_vars

\* the lock survived a Formed frame and was then cleared by the release
LockClearedByReleaseOrNoHandWitness ==
    /\ prevAction = "FORM"
    /\ action = "CONTROL"
    /\ focusEmit = <<FALSE>>
    /\ ~pinchState.isLocked
    /\ pinchState.lastPinchReleaseTime = now

\* C13 as stated.  The focus-lock output tracks the lock: after every frame
\* the value most recently delivered through onPhotoFocusChange equals
\* is_locked, and the sink's focus flag is false once a frame without hands
\* has cleared the lock.
FocusTracksLock ==
    /\ nframes > 0 => lastFocus = pinchState.isLocked
    /\ (action = "NONE" /\ ~pinchState.isLocked) => ~isPhotoFocused

\* C14. Mode events: onStateChange(CHAOS) is called exactly in the frames
\* that resolve Chaos and onStateChange(FORMED) exactly in the frames that
\* resolve Formed, once each; frames resolving NoHand, Locked or Control call
\* it not at all and leave the sink's treeState as it was.
ModeEvents ==
    [][ FrameStep =>
          /\ (stateEmit' = <<"CHAOS">>) <=> (action' = "CHAOS")
          /\ (stateEmit' = <<"FORMED">>) <=> (action' = "FORM")
          /\ stateEmit' \in {<<>>, <<"CHAOS">>, <<"FORMED">>}
          /\ action' = "CHAOS" => treeState' = "CHAOS"
          /\ action' = "FORM" => treeState' = "FORMED"
          /\ action' \in {"NONE", "LOCKED_FOCUS", "CONTROL"} =>
                stateEmit' = <<>> /\ treeState' = treeState
      ]_vars

\* a Control frame after a Formed one: no event, the sink stays FORMED
ModeEventsWitness ==
    /\ prevAction = "FORM"
    /\ action = "CONTROL"
    /\ stateEmit = <<>>
    /\ treeState = "FORMED"

\* the action the rules select for the last frame, in their fixed order:
\* no hand, spread, fist, lock, drag
FirstMatchingRule ==
    IF Len(frame) = 0 THEN "NONE"
    ELSE IF SpreadCondition(handsDistanceHistory) THEN "CHAOS"
    ELSE IF \E i \in 1..Len(frame) : FistClosure(frame[i]) < FIST_THRESHOLD
         THEN "FORM"
    ELSE IF pinchState.isLocked THEN "LOCKED_FOCUS"
    ELSE "CONTROL"

\* C15. Totality: for every frame of zero, one or two hands processGestures
\* returns exactly one action of {NONE, CHAOS, FORM, LOCKED_FOCUS, CONTROL},
\* the one of the first matching rule in the order no-hand, spread, fist,
\* lock, drag.
Totality ==
    nframes > 0 =>
       /\ Len(frame) \in {0, 1, 2}
       /\ action \in {"NONE", "CHAOS", "FORM", "LOCKED_FOCUS", "CONTROL"}
       /\ action = FirstMatchingRule

\* two hands with a full distance history that does not spread, no fist, no
\* lock: the last rule decides
TotalityWitness ==
    /\ Len(frame) = 2
    /\ Len(handsDistanceHistory) >= 3
    /\ pinchState.isPinched
    /\ action = "CONTROL"

\* C16. Release timestamp: a frame that reaches the pinch rule and observes
\* the falling edge of the pinch records its own timestamp as the last pinch
\* release time, locked or not; if the lock was set it is cleared, false is
\* delivered through onPhotoFocusChange, and the frame resolves Control.
ReleaseTimestamp ==
    [][ (FrameStep /\ ReleaseEdgeObserved) =>
          /\ pinchState'.lastPinchReleaseTime = now'
          /\ ~pinchState'.isPinched
          /\ ~pinchState'.isLocked
          /\ action' = "CONTROL"
          /\ pinchState.isLocked =>
                focusEmit' = <<FALSE>> /\ pinchState'.clickCount = 0
          /\ ~pinchState.isLocked => focusEmit' = <<>>
      ]_vars

\* the release of a single pinch that never locked, recorded at its frame
ReleaseTimestampWitness ==
    /\ action = "CONTROL"
    /\ prevAction = "CONTROL"
    /\ pinchState.clickCount = 1
    /\ ~pinchState.isPinched
    /\ pinchState.lastPinchReleaseTime = now
    /\ lastFocus = FALSE

\* the step blends a rotation impulse into the smoothed velocity
ImpulseBlended ==
    /\ action' = "CONTROL"
    /\ lastWristPos # <<>>
    /\ Abs(frame'[1].wrist[1] - lastWristPos[1][1]) > ROTATION_THRESHOLD

\* C17 as stated.  Rotation decays every frame: whichever rule resolves the
\* frame, a frame that blends in no impulse multiplies the retained smoothed
\* velocity by 0.8, so that its magnitude shrinks unless it was already 0.
RotationDecaysEveryFrame ==
    [][ (FrameStep /\ ~ImpulseBlended) =>
          /\ smoothedVelocity' = VelTimesPow08(smoothedVelocity, 1)
          /\ smoothedVelocity # VelZero =>
                ~VelAbsLeq(smoothedVelocity, smoothedVelocity')
      ]_vars

\* |rotInput| of the step, 0 if it blends no impulse
ImpulseMagnitude ==
    IF ImpulseBlended
    THEN Pow12(Abs(frame'[1].wrist[1] - lastWristPos[1][1]) - ROTATION_THRESHOLD)
           * ROTATION_SENSITIVITY
    ELSE 0

\* C18. Bounded rotation: the magnitude of the smoothed velocity after a
\* frame exceeds neither the larger of its magnitude before the frame and the
\* frame's impulse, nor the largest single-frame impulse: sensitivity *
\* 0.002^1.2 for the steps of at most 0.012 taken here, itself below
\* sensitivity * 0.99^1.2 = 19.760240, the impulse of a wrist crossing the
\* whole unit interval in one frame.
BoundedRotation ==
    [][ FrameStep =>
          /\ \/ VelAbsLeq(smoothedVelocity', smoothedVelocity)
             \/ VelAbsLeq(smoothedVelocity', [n |-> ImpulseMagnitude, e |-> 0])
          /\ VelAbsLeq(smoothedVelocity',
                       [n |-> ROTATION_SENSITIVITY * Pow12(2), e |-> 0])
          /\ ROTATION_SENSITIVITY * Pow12(2) <= 19760240
      ]_vars

\* four swipes in a row in one direction: more than 0.59 of the impulse
BoundedRotationWitness ==
    /\ action = "CONTROL"
    /\ prevAction = "CONTROL"
    /\ VelAbsGt(smoothedVelocity, 6800)
    /\ wristDelta[1] = 12

\* dX of the step: the horizontal wrist delta against the previous sample
StepDX ==
    IF lastWristPos = <<>> THEN 0
    ELSE frame'[1].wrist[1] - lastWristPos[1][1]

\* 0.8 * v + 0.2 * impulse, the impulse in units of 10^-6
Blend(v, impulse) ==
    Reduce([n |-> 4 * v.n + impulse * Pow5(v.e), e |-> v.e + 1])

\* C19 as stated.  Rotation blending with the impulse
\* sign(dx) * |dx|^1.2 * rotation_sensitivity outside the deadzone.
RotationBlendingRawDelta ==
    [][ (FrameStep /\ action' = "CONTROL") =>
          LET impulse == IF Abs(StepDX) > ROTATION_THRESHOLD
                         THEN Sign(StepDX) * Pow12(Abs(StepDX))
                                * ROTATION_SENSITIVITY
                         ELSE 0
          IN  /\ smoothedVelocity' = Blend(smoothedVelocity, impulse)
              /\ rotEmit' = <<smoothedVelocity'>>
      ]_vars

\* C19. Rotation blending: in every Control frame the new smoothed velocity
\* is 0.8 * old + 0.2 * impulse, where the impulse is 0 when |dx| is within
\* the rotation deadzone and otherwise
\* sign(dx) * (|dx| - rotation_deadzone)^1.2 * rotation_sensitivity; the value
\* passed to onRotateChange is that blended value.
RotationBlending ==
    [][ (FrameStep /\ action' = "CONTROL") =>
          LET impulse == IF Abs(StepDX) > ROTATION_THRESHOLD
                         THEN Sign(StepDX)
                                * Pow12(Abs(StepDX) - ROTATION_THRESHOLD)
                                * ROTATION_SENSITIVITY
                         ELSE 0
          IN  /\ smoothedVelocity' = Blend(smoothedVelocity, impulse)
              /\ rotEmit' = <<smoothedVelocity'>>
      ]_vars

\* a swipe to the left blended into the velocity of earlier swipes to the
\* right: the result is neither the old velocity nor the impulse
RotationBlendingWitness ==
    /\ action = "CONTROL"
    /\ prevAction = "CONTROL"
    /\ wristDelta[1] = -12
    /\ smoothedVelocity.n > 0
    /\ smoothedVelocity.e >= 2
    /\ rotEmit = <<smoothedVelocity>>

\* dY of the step: the vertical wrist delta of a Control frame against the
\* previous sample, 0 in any other frame
StepDY ==
    IF action' # "CONTROL" \/ lastWristPos = <<>> THEN 0
    ELSE frame'[1].wrist[2] - lastWristPos[1][2]

\* C20 as stated.  Zoom changes only by drag, by +zoom_sensitivity * dy.
ZoomOnlyByDragAdded ==
    [][ FrameStep =>
          IF Abs(StepDY) > ZOOM_THRESHOLD
          THEN /\ currentZoomLevel' =
                    Max(0, Min(1000, currentZoomLevel + ZOOM_SENSITIVITY * StepDY))
               /\ zoomEmit' = <<currentZoomLevel'>>
          ELSE /\ currentZoomLevel' = currentZoomLevel
               /\ zoomEmit' = <<>>
      ]_vars

\* C20. Zoom changes only by drag: the zoom level changes, and onZoomChange
\* is called, only in a frame that resolves Control and whose vertical wrist
\* delta magnitude exceeds the zoom deadzone, where the new level is
\* clamp(old level - zoom_sensitivity * dy, 0, 1): a hand moving up zooms in.
\* Every other frame leaves the zoom level unchanged and calls nothing.
ZoomOnlyByDrag ==
    [][ FrameStep =>
          IF Abs(StepDY) > ZOOM_THRESHOLD
          THEN /\ currentZoomLevel' =
                    Max(0, Min(1000, currentZoomLevel - ZOOM_SENSITIVITY * StepDY))
               /\ zoomEmit' = <<currentZoomLevel'>>
          ELSE /\ currentZoomLevel' = currentZoomLevel
               /\ zoomEmit' = <<>>
      ]_vars

\* the level was moved off its initial value, and a Control frame inside the
\* zoom deadzone then left it where it was
ZoomOnlyByDragWitness ==
    /\ action = "CONTROL"
    /\ wristDelta[2] \in {4, -4}
    /\ zoomEmit = <<>>
    /\ currentZoomLevel \notin {0, INITIAL_ZOOM, 1000}

\* C21 as stated.  The wrist delta of a Control frame is the displacement of
\* the primary wrist against the immediately preceding processed frame when
\* that frame contained a hand, and (0,0) when there is no such frame.
WristDeltaAgainstPrecedingFrame ==
    [][ (FrameStep /\ action' = "CONTROL") =>
          wristDelta' =
             IF Len(frame) > 0
             THEN <<frame'[1].wrist[1] - frame[1].wrist[1],
                    frame'[1].wrist[2] - frame[1].wrist[2]>>
             ELSE <<0, 0>>
      ]_vars

\* C22. Held lock is not overridden by motion: a frame with a hand that
\* finds the lock set and the pinch still held, and in which neither the
\* spread nor the fist rule fires, resolves Locked, passes true to
\* onPhotoFocusChange and 0 to onRotateChange, and leaves the zoom level, the
\* smoothed velocity, the previous wrist sample, is_locked and is_pinched as
\* they were, wherever the wrist is.
HeldLockIgnoresMotion ==
    [][ ( /\ FrameStep
          /\ pinchState.isLocked
          /\ Len(frame') > 0
          /\ PinchDistance(frame'[1]) < PINCH_THRESHOLD
          /\ ~SpreadCondition(handsDistanceHistory')
          /\ \A i \in 1..Len(frame') : FistClosure(frame'[i]) >= FIST_THRESHOLD )
        =>
          /\ action' = "LOCKED_FOCUS"
          /\ focusEmit' = <<TRUE>>
          /\ rotEmit' = <<VelZero>>
          /\ zoomEmit' = <<>>
          /\ currentZoomLevel' = currentZoomLevel
          /\ smoothedVelocity' = smoothedVelocity
          /\ lastWristPos' = lastWristPos
          /\ pinchState'.isLocked /\ pinchState'.isPinched
          /\ pinchState' = pinchState
      ]_vars

\* a Locked frame with the wrist away from the stored sample, the smoothed
\* velocity not 0
HeldLockIgnoresMotionWitness ==
    /\ action = "LOCKED_FOCUS"
    /\ pinchState.isLocked
    /\ lastWristPos # <<>>
    /\ frame[1].wrist # lastWristPos[1]
    /\ smoothedVelocity # VelZero

\* C23. Bounded distance history: after every frame the inter-hand distance
\* history holds at most 5 samples in arrival order, one for each of the
\* last frames, all of them with two hands; a frame with two hands appends
\* its distance and, if 5 were held, evicts exactly the oldest; a frame with
\* fewer than two hands leaves the history empty.
BoundedDistanceHistory ==
    [][ FrameStep =>
          /\ Len(handsDistanceHistory') <= 5
          /\ Len(handsDistanceHistory') = Min(5, twoHandRun')
          /\ IF Len(frame') = 2
             THEN /\ handsDistanceHistory' # <<>>
                  /\ handsDistanceHistory'[Len(handsDistanceHistory')] =
                        InterHandDistance(frame'[1], frame'[2])
                  /\ SubSeq(handsDistanceHistory', 1,
                            Len(handsDistanceHistory') - 1) =
                        IF Len(handsDistanceHistory) = 5
                        THEN Tail(handsDistanceHistory)
                        ELSE handsDistanceHistory
             ELSE handsDistanceHistory' = <<>>
      ]_vars

\* six frames with two hands in a row: the first distance, 0.100, was evicted
BoundedDistanceHistoryWitness ==
    /\ twoHandRun = 6
    /\ handsDistanceHistory = <<110, 130, 160, 200, 50>>

\* the step is a render tick
RenderStep == Len(added') = Len(added) + 1

\* C24. Rotation reaches the render accumulator at most once: a render tick
\* with the focus flag false adds the pending hand velocity and zeroes it, so
\* that no emission of the core is added by two ticks; a render tick with the
\* focus flag true adds no hand velocity and leaves the pending one as it is.
RotationAddedAtMostOnce ==
    [][ RenderStep =>
          LET a == added'[Len(added')]
          IN  /\ IF isPhotoFocused
                 THEN a.v = VelZero /\ rotationVelocity' = rotationVelocity
                 ELSE a.v = rotationVelocity /\ rotationVelocity' = VelZero
              /\ \A i \in 1..Len(added) :
                    (a.v # VelZero /\ added[i].v # VelZero) =>
                       added[i].from # a.from
      ]_vars

\* three ticks: one added the emission of a Control frame, the next found
\* nothing pending, the last added the emission of a later frame
RotationAddedAtMostOnceWitness ==
    /\ Len(added) = 3
    /\ added[1].v # VelZero
    /\ added[2].v = VelZero
    /\ added[3].v # VelZero
    /\ added[3].from > added[1].from
    /\ ~isPhotoFocused

\* C25 as stated.  Lock clears pending rotation in the sink: after a Locked
\* frame the sink's pending hand velocity is 0, and a render tick after a
\* Locked frame never adds the emission of a frame before it.
LockClearsPending ==
    [][ /\ (FrameStep /\ action' = "LOCKED_FOCUS") =>
              rotationVelocity' = VelZero
        /\ (RenderStep /\ prevAction = "LOCKED_FOCUS" /\ action = "FORM") =>
              added'[Len(added')].v = VelZero
      ]_vars

\* the step is a predictLoop callback
CallbackStep == ncallbacks' = ncallbacks + 1

\* C26. Detection throttle: with callback timestamps that never decrease, a
\* callback runs detect, and with it processGestures, at most once; any two
\* consecutive runs of detect have callback timestamps at least 33 ms apart;
\* and every callback leaves the next one requested, whether it ran detect
\* or not.
DetectionThrottle ==
    [][ CallbackStep =>
          /\ loopTime' >= loopTime
          /\ requested'
          /\ nframes' \in {nframes, nframes + 1}
          /\ detectLog' \in {detectLog, LogRun(detectLog, loopTime')}
          /\ nframes' # nframes => detectLog' # detectLog
          /\ Len(detectLog') = 2 =>
                detectLog'[2] - detectLog'[1] >= DETECTION_INTERVAL
          /\ (detectLog' # detectLog /\ detectLog # <<>>) =>
                loopTime' - detectLog[Len(detectLog)] >= DETECTION_INTERVAL
      ]_vars

\* two runs of detect exactly 33 ms apart, each processing a frame, with
\* throttled callbacks around them
DetectionThrottleWitness ==
    /\ Len(detectLog) = 2
    /\ detectLog[2] - detectLog[1] = 33
    /\ loopTime = detectLog[2]
    /\ ncallbacks >= 4
    /\ nframes = 2

\* C27. is_locked implies is_pinched: after every frame is_locked implies
\* is_pinched; the lock is set only by a frame that observes a rising edge of
\* the pinch, and a frame that clears is_pinched leaves the lock clear.
LockedImpliesPinched ==
    [][ FrameStep =>
          /\ pinchState'.isLocked => pinchState'.isPinched
          /\ (~pinchState.isLocked /\ pinchState'.isLocked) =>
                /\ ~pinchState.isPinched
                /\ Len(frame') > 0
                /\ PinchDistance(frame'[1]) < PINCH_THRESHOLD
                /\ action' = "LOCKED_FOCUS"
          /\ (pinchState.isPinched /\ ~pinchState'.isPinched) =>
                ~pinchState'.isLocked
      ]_vars

\* a lock set by a second pinch, after a recorded release, and still held
LockedImpliesPinchedWitness ==
    /\ pinchState.isLocked
    /\ pinchState.isPinched
    /\ pinchState.lastPinchReleaseTime > 0
    /\ pinchState.clickCount = 2
    /\ prevAction = "LOCKED_FOCUS"

\* C28 as stated.  A lock needs an earlier release: is_locked becomes true
\* only if an earlier frame recorded a pinch release; the first pinch engage
\* after the start, with the last release time still 0, never locks.
LockNeedsEarlierRelease ==
    [][ (FrameStep /\ ~pinchState.isLocked /\ pinchState'.isLocked) =>
          pinchState.lastPinchReleaseTime > 0
      ]_vars

\* C29. Chaos and Formed frames freeze the lower-priority state: a frame
\* that resolves Chaos or Formed leaves is_pinched, is_locked, the click
\* count, the last release time, the previous wrist sample, the smoothed
\* velocity and the zoom level as they were and calls none of onRotateChange,
\* onPhotoFocusChange and onZoomChange, whatever the pinch distance of the
\* primary hand is.
ModeFramesFreeze ==
    [][ (FrameStep /\ action' \in {"CHAOS", "FORM"}) =>
          /\ pinchState' = pinchState
          /\ lastWristPos' = lastWristPos
          /\ smoothedVelocity' = smoothedVelocity
          /\ currentZoomLevel' = currentZoomLevel
          /\ rotEmit' = <<>>
          /\ focusEmit' = <<>>
          /\ zoomEmit' = <<>>
      ]_vars

\* a Formed frame whose primary hand pinches, after a Control frame that saw
\* no pinch: the rising edge is not observed
ModeFramesFreezeWitness ==
    /\ action = "FORM"
    /\ prevAction = "CONTROL"
    /\ PinchDistance(frame[1]) < PINCH_THRESHOLD
    /\ ~pinchState.isPinched
    /\ lastWristPos # <<>>
    /\ frame[1].wrist # lastWristPos[1]

\* C30. Chaos needs three contiguous two-hand frames: a frame resolves Chaos
\* only if it and the two frames processed immediately before it all
\* contained two hands, a frame with fewer hands restarting the count; no
\* frame with fewer than two hands resolves Chaos.
ChaosNeedsThreeFrames ==
    action = "CHAOS" => (Len(frame) = 2 /\ twoHandRun >= 3)

\* Chaos at the third frame with two hands after a frame with fewer
ChaosNeedsThreeFramesWitness ==
    /\ action = "CHAOS"
    /\ twoHandRun = 3
    /\ nframes > 3

\* the refs below the mode gestures and the emissions of the last frame are
\* the same in the two runs
SameLowerState ==
    /\ other.pinchState = pinchState
    /\ other.lastWristPos = lastWristPos
    /\ other.smoothedVelocity = smoothedVelocity
    /\ other.currentZoomLevel = currentZoomLevel
    /\ other.rotEmit = rotEmit
    /\ other.zoomEmit = zoomEmit
    /\ other.focusEmit = focusEmit

\* C31 as stated.  Second hand non-interference: for two runs that differ
\* only in the landmarks of the second hand, after every frame that neither
\* run resolves Chaos or Formed the pinch state, the wrist sample, the
\* smoothed velocity, the zoom level and the emitted rotation, zoom and focus
\* values are the same in both runs.
SecondHandNonInterferenceEveryFrame ==
    (nframes > 0 /\ ~ModeAction(action) /\ ~ModeAction(other.action)) =>
       SameLowerState

\* C31. Second hand non-interference: for two runs that differ only in the
\* landmarks of the second hand, as long as no frame has resolved Chaos or
\* Formed in one run only, both runs hold the same pinch state, wrist sample,
\* smoothed velocity and zoom level and emit the same rotation, zoom and
\* focus values.
SecondHandNonInterference ==
    ~diverged => (SameLowerState /\ ModeAction(action) = ModeAction(other.action))

\* the runs saw different second hands, as their distance histories show,
\* and dragged alike after a pinch
SecondHandNonInterferenceWitness ==
    /\ ~diverged
    /\ nframes = 3
    /\ Len(frame) = 2
    /\ other.handsDistanceHistory # handsDistanceHistory
    /\ action = "CONTROL"
    /\ pinchState.clickCount > 0
    /\ smoothedVelocity # VelZero
    /\ currentZoomLevel # INITIAL_ZOOM

\* C32. No frame is processed before the pipeline is ready: whatever the
\* order in which the camera and the landmarker finish initialising, a frame
\* is processed only when the landmarker exists and the video has a stream,
\* is neither paused nor ended and has frame data; a callback at any other
\* time leaves the refs, the emissions and the sink as they were.
NoFrameBeforeReady ==
    [][/\ FrameStep => (handLandmarkerRef /\ srcObject /\ video = "playing")
       /\ (CallbackStep /\ ~(handLandmarkerRef /\ srcObject /\ video = "playing"))
             => UNCHANGED coreVars]_vars

\* the camera finished first: detect has run with the video playing and no
\* landmarker yet, and no frame has been processed
NoFrameBeforeReadyWitness ==
    /\ ~handLandmarkerRef
    /\ aiInit = "model"
    /\ video = "playing"
    /\ Len(detectLog) = 2
    /\ nframes = 0
    /\ action = "INIT"

\* C33 as stated.  Unmount stops the loop and the camera: once the cleanup
\* has run no predictLoop callback is requested, and the camera stream, if
\* one was or is later obtained, is not live.
UnmountStopsLoopAndCamera ==
    ~isActive => (~requested /\ stream # "live")

====
